---- MODULE Spec2Model ----
(***************************************************************************)
(* Model of x-mlps-pytorch: the normalized feedforward stack of            *)
(* x_mlps_pytorch/nff.py (Scale, Residual, L2Norm, NormLinear,             *)
(* nFeedforward, nFeedforwards) and the MLP placeholder of x_mlps/x_mlps.py *)
(* with its test.                                                          *)
(*                                                                         *)
(* Numbers.  Tensor entries are real numbers.  Every number the model      *)
(* handles is of the form  sgn * sqrt(p / q)  with p, q naturals, which is *)
(* closed under multiplication, division and L2 normalization.  A number   *)
(* is the pair <<n, d>> with d > 0 and gcd(|n|, d) = 1, standing for       *)
(* sgn(n) * sqrt(|n| / d); the integer k is <<k*|k|, 1>>.  Arithmetic is    *)
(* exact (no floating-point rounding).                                     *)
(***************************************************************************)
EXTENDS Integers, Sequences, FiniteSets, TLC

(***************************************************************************)
(* Bounds of the model                                                     *)
(***************************************************************************)
\* raw weight entries written by the initializer / optimizer are integers in -MaxW..MaxW
MaxW == 1
\* the NormLinear under test has the weight shape [NLDimOut, NLDimIn]
NLDimOut == 2
NLDimIn == 2
\* the stack: dim in 1..MaxDim, depth in 1..MaxDepth, tuples of hyperparameters of
\* length 1..MaxDepth+1, dim_in and dim_out absent or in 1..MaxDim, inputs with at
\* most MaxRank batch axes of size 1..MaxBatch, weights seeded by 0..MaxSeed
MaxDim == 2
MaxDepth == 2
MaxRank == 2
MaxBatch == 2
MaxSeed == 1
\* the test of MLP: up to MaxLayers layer dimensions in 1..MaxMlpDim
MaxLayers == 3
MaxMlpDim == 2
\* Scale under test: dim in 1..MaxScaleDim, init and scale among the rationals p/q
\* with |p| <= MaxS, 1 <= q <= MaxS and the numbers d ** -0.5 with d <= MaxS
MaxScaleDim == 2
MaxS == 2
\* Residual under test: feature dimension ResDim, inputs and inner outputs are the
\* multiples -MaxK..MaxK of a few directions, learned steps are p/2 with -1 <= p <= MaxStepNum
ResDim == 2
MaxK == 2
MaxStepNum == 2

(***************************************************************************)
(* Exact arithmetic on numbers  sgn * sqrt(p / q)                          *)
(***************************************************************************)
Abs(k) == IF k < 0 THEN -k ELSE k

Sgn(k) == IF k < 0 THEN -1 ELSE IF k = 0 THEN 0 ELSE 1

RECURSIVE GCD(_, _)
GCD(a, b) == IF b = 0 THEN a ELSE GCD(b, a % b)

\* canonical form of sgn(n) * sqrt(|n| / d)
Num(n, d) == IF n = 0 THEN <<0, 1>>
             ELSE LET g == GCD(Abs(n), d) IN <<Sgn(n) * (Abs(n) \div g), d \div g>>

FromInt(k) == <<k * Abs(k), 1>>

\* the rational p / q (q > 0)
FromRat(p, q) == Num(p * Abs(p), q * q)

Zero == <<0, 1>>

One == <<1, 1>>

Mul(a, b) == Num(a[1] * b[1], a[2] * b[2])

\* a / b for b # 0
Div(a, b) == Num(a[1] * b[2] * Sgn(b[1]), a[2] * Abs(b[1]))

Neg(a) == <<-a[1], a[2]>>

RECURSIVE SqrtFrom(_, _)
\* the least r' >= r with r' * r' >= n
SqrtFrom(n, r) == IF r * r >= n THEN r ELSE SqrtFrom(n, r + 1)

\* the square root of a square n
Sqrt(n) == SqrtFrom(n, 0)

\* a + b for rationals a, b (numbers whose |n| and d are squares)
Add(a, b) ==
    LET p == Sgn(a[1]) * Sqrt(Abs(a[1]))
        q == Sqrt(a[2])
        r == Sgn(b[1]) * Sqrt(Abs(b[1]))
        t == Sqrt(b[2])
    IN  FromRat(p * t + r * q, q * t)

Sub(a, b) == Add(a, Neg(b))

\* rationals <<p, q>> in lowest terms, q > 0: the squared magnitudes
Rat(p, q) == LET g == GCD(Abs(p), q) IN IF p = 0 THEN <<0, 1>> ELSE <<p \div g, q \div g>>

RatAdd(r, s) == Rat(r[1] * s[2] + s[1] * r[2], r[2] * s[2])

\* x^2 of a number, as a rational
Square(a) == <<Abs(a[1]), a[2]>>

RECURSIVE SumSquares(_)
\* sum of the squares of the entries of the vector v: the squared L2 norm
SumSquares(v) == IF v = <<>> THEN <<0, 1>>
                 ELSE RatAdd(Square(Head(v)), SumSquares(Tail(v)))

(***************************************************************************)
(* l2norm: F.normalize(t, dim) = t / max(||t||_2, eps) along dim,          *)
(* eps = 1e-12.  Every non-zero vector of the model has squared norm       *)
(* p/q >= 1/q with q < 2^31, far above eps^2 = 1e-24, so the clamp is      *)
(* active exactly for the zero vector, which is mapped to 0 / eps = 0.     *)
(***************************************************************************)
\* a normalization that divides by the squared norm (the square root forgotten)
normalize_by_square(v) ==
    LET s == SumSquares(v) IN
    IF s[1] = 0 THEN [i \in 1..Len(v) |-> Zero]
    ELSE [i \in 1..Len(v) |-> Num(v[i][1] * s[2] * s[2], v[i][2] * s[1] * s[1])]

\* F.normalize of one vector
normalize(v) ==
    LET s == SumSquares(v) IN
    IF s[1] = 0 THEN [i \in 1..Len(v) |-> Zero]
    ELSE [i \in 1..Len(v) |-> Num(v[i][1] * s[2], v[i][2] * s[1])]

\* column j of the matrix m (a sequence of rows)
Column(m, j) == [i \in 1..Len(m) |-> m[i][j]]

\* l2norm(t, dim) of a matrix: dim = -1 normalizes each row, dim = 0 each column
l2norm(t, dim) ==
    IF dim = -1 THEN [i \in 1..Len(t) |-> normalize(t[i])]
    ELSE LET cols == [j \in 1..Len(t[1]) |-> normalize(Column(t, j))]
         IN  [i \in 1..Len(t) |-> [j \in 1..Len(t[i]) |-> cols[j][i]]]

\* l2norm(t) of a tensor whose only axis is the feature axis
l2norm_vec(v) == normalize(v)

(***************************************************************************)
(* NormLinear.  A NormLinear is a record                                   *)
(*   dim, dim_out : the shape [dim_out, dim] of the weight                 *)
(*   parametrize  : the mode                                               *)
(*   l2norm_dim   : the axis of self.l2norm (-1 or 0)                      *)
(*   raw          : the stored parameter: linear.weight in manual mode,    *)
(*                  linear.parametrizations.weight.original otherwise      *)
(***************************************************************************)
\* self.weight: linear.weight, which a registered parametrization computes from the original
NormLinear_weight(nl) ==
    IF nl.parametrize THEN l2norm(nl.raw, nl.l2norm_dim) ELSE nl.raw

NormLinear_norm_weights_(nl) ==
    IF nl.parametrize
    THEN [nl EXCEPT !.raw = NormLinear_weight(nl)]
    ELSE [nl EXCEPT !.raw = l2norm(NormLinear_weight(nl), nl.l2norm_dim)]

\* the constructor without its closing norm_weights_ call
NormLinear_init_unnormed(dim, dim_out, norm_dim_in, parametrize, w0) ==
    [dim |-> dim, dim_out |-> dim_out, parametrize |-> parametrize,
     l2norm_dim |-> IF norm_dim_in THEN -1 ELSE 0, raw |-> w0]

\* NormLinear(dim, dim_out, norm_dim_in, parametrize), w0 the value nn.Linear initializes
NormLinear_init(dim, dim_out, norm_dim_in, parametrize, w0) ==
    NormLinear_norm_weights_(
        [dim |-> dim, dim_out |-> dim_out, parametrize |-> parametrize,
         l2norm_dim |-> IF norm_dim_in THEN -1 ELSE 0, raw |-> w0])

\* the integer k of -MaxW..MaxW with k = n - MaxW modulo 2 * MaxW + 1
Entry(n) == (n % (2 * MaxW + 1)) - MaxW

\* the integer matrices the initializer and the optimizer can write: those with the
\* entries Entry(a + b*j + c*i + d*i*j)
IntMatrices(rows, cols) ==
    {[i \in 1..rows |-> [j \in 1..cols |-> FromInt(Entry(a + b * j + c * i + d * i * j))]] :
        a \in 0..(2 * MaxW), b \in 0..(2 * MaxW), c \in 0..(2 * MaxW), d \in 0..1}

\* the vectors of the matrix w along the axis dim: its rows (dim = -1) or its columns (dim = 0)
Lines(w, dim) ==
    IF dim = -1 THEN {w[i] : i \in 1..Len(w)}
    ELSE {Column(w, j) : j \in 1..Len(w[1])}

IsZeroVector(v) == \A i \in 1..Len(v) : v[i] = Zero

HasUnitNorm(v) == SumSquares(v) = <<1, 1>>

\* nn.Linear draws the initial weight from a continuous distribution: no row or column is zero
InitMatrices(rows, cols) ==
    {w \in IntMatrices(rows, cols) :
        \A v \in Lines(w, -1) \cup Lines(w, 0) : ~IsZeroVector(v)}

(***************************************************************************)
(* helpers of nff.py                                                       *)
(***************************************************************************)
\* Python's None among the numbers (no number has denominator 0)
None == <<0, 0>>

exists(v) == v # None

default(v, d) == IF exists(v) THEN v ELSE d

(***************************************************************************)
(* Scale.  A Scale is a record                                             *)
(*   dim           : the length of the learned vector                      *)
(*   scale         : the learned vector (nn.Parameter)                     *)
(*   forward_scale : init / scale                                          *)
(***************************************************************************)
\* init / scale of line 49 raises ZeroDivisionError for scale = 0
Scale_raises(dim, init, scale) == scale = Zero

\* a Scale whose learned vector starts at one rather than at the constant scale
Scale_init_ones(dim, init, scale) ==
    [dim |-> dim,
     scale |-> [i \in 1..dim |-> One],
     forward_scale |-> Div(init, scale)]

\* Scale(dim, init, scale), for scale # 0
Scale_init(dim, init, scale) ==
    [dim |-> dim,
     scale |-> [i \in 1..dim |-> Mul(One, scale)],
     forward_scale |-> Div(init, scale)]

Scale_forward(sc) == [i \in 1..sc.dim |-> Mul(sc.scale[i], sc.forward_scale)]

(***************************************************************************)
(* Residual.  A Residual is a record                                       *)
(*   fn           : the wrapped module                                     *)
(*   dim          : the feature dimension                                  *)
(*   branch_scale : its Scale                                              *)
(* What self.fn(x) returns is a record [is_tuple, out, rest].              *)
(***************************************************************************)
\* dim ** -0.5
InvSqrt(dim) == Num(1, dim)

\* Residual(fn, dim, init, scale)
Residual_init(fn, dim, init, scale) ==
    [fn |-> fn, dim |-> dim,
     branch_scale |-> Scale_init(dim, init, default(scale, InvSqrt(dim)))]

\* start.lerp(end, weight) = start + weight * (end - start), elementwise
lerp(start, end, weight) ==
    [i \in 1..Len(start) |-> Add(start[i], Mul(weight[i], Sub(end[i], start[i])))]

\* forward without the closing l2norm of the blended vector
Residual_forward_unnormed(res, x, fn_out) ==
    LET out1 == l2norm_vec(fn_out.out)
        out2 == lerp(x, out1, Scale_forward(res.branch_scale))
    IN  [is_tuple |-> fn_out.is_tuple, out |-> out2, rest |-> fn_out.rest]

\* Residual.forward(x), fn_out = self.fn(x); the result is a tuple iff fn_out is
Residual_forward(res, x, fn_out) ==
    LET out1 == l2norm_vec(fn_out.out)
        out2 == l2norm_vec(lerp(x, out1, Scale_forward(res.branch_scale)))
    IN  [is_tuple |-> fn_out.is_tuple, out |-> out2, rest |-> fn_out.rest]

(***************************************************************************)
(* cast_tuple.  A hyperparameter is a record [is_tuple, v]: v holds the    *)
(* per-layer values of a tuple, or the one value (a number or None) of a   *)
(* hyperparameter that is no tuple.                                        *)
(***************************************************************************)
Scalar(v) == [is_tuple |-> FALSE, v |-> <<v>>]

Tuple(vs) == [is_tuple |-> TRUE, v |-> vs]

\* cast_tuple that forgets to repeat a scalar length times
cast_tuple_once(t, length) ==
    IF t.is_tuple THEN t.v ELSE <<t.v[1]>>

\* the value out of cast_tuple(t, length)
cast_tuple(t, length) ==
    IF t.is_tuple THEN t.v ELSE [i \in 1..length |-> t.v[1]]

\* cast_tuple without its assertion
cast_tuple_unchecked(t, length) == FALSE

\* the assertion of cast_tuple fails
cast_tuple_raises(t, length) == Len(cast_tuple(t, length)) # length

(***************************************************************************)
(* The initial weights.  nn.Linear initializes a weight at random; the     *)
(* model draws it from the family Fill0(seed, k, ..), k the position of    *)
(* the NormLinear in the stack, whose entries are non-zero integers.  An   *)
(* optimizer step writes Fill(seed, k, ..), whose entries may be zero.     *)
(***************************************************************************)
Entry0(n) == LET m == n % (2 * MaxW) IN IF m < MaxW THEN m - MaxW ELSE m - MaxW + 1

Fill(seed, k, rows, cols) ==
    [i \in 1..rows |-> [j \in 1..cols |-> FromInt(Entry(seed + k + i * j + j))]]

Fill0(seed, k, rows, cols) ==
    [i \in 1..rows |-> [j \in 1..cols |-> FromInt(Entry0(seed + k + i * j + j))]]

(***************************************************************************)
(* nFeedforward.  A record [dim, dim_inner, to_hidden, to_gate,            *)
(* hidden_scale, gate_scale, to_out].  expand_factor is the rational       *)
(* <<p, q>>.                                                               *)
(***************************************************************************)
\* int(dim * expand_factor * 2 / 3)
DimInner(dim, expand_factor) == (dim * expand_factor[1] * 2) \div (expand_factor[2] * 3)

\* nFeedforward(dim, ...) whose NormLinears are the 3 * layer + 1, .. + 3 -th of the stack
nFeedforward_init(dim, expand_factor, manual_norm_weights, s_hidden_init, s_hidden_scale, s_gate_init, s_gate_scale, seed, k) ==
    LET dim_inner == DimInner(dim, expand_factor)
        NormLinear_(d, d_out, norm_dim_in, w0) ==
            NormLinear_init(d, d_out, norm_dim_in, ~manual_norm_weights, w0)
    IN  [dim |-> dim,
         dim_inner |-> dim_inner,
         to_hidden |-> NormLinear_(dim, dim_inner, TRUE, Fill0(seed, k + 1, dim_inner, dim)),
         to_gate |-> NormLinear_(dim, dim_inner, TRUE, Fill0(seed, k + 2, dim_inner, dim)),
         hidden_scale |-> Scale_init(dim_inner, s_hidden_init, s_hidden_scale),
         gate_scale |-> Scale_init(dim_inner, s_gate_init, s_gate_scale),
         to_out |-> NormLinear_(dim_inner, dim, FALSE, Fill0(seed, k + 3, dim, dim_inner))]

(***************************************************************************)
(* nFeedforwards.  The arguments are a record                              *)
(*   dim, depth, dim_in, dim_out (a size or 0 for None), ff_expand_factor, *)
(*   input_preserve_magnitude, manual_norm_weights, alpha_init,            *)
(*   hparams : the eight scale hyperparameters by name.                    *)
(* The module is a record [dim, depth, layers, input_preserve_magnitude,   *)
(* need_proj_in, proj_in, proj_in_scale, need_proj_out, proj_out,          *)
(* proj_out_scale]; an optional submodule is a sequence of length 0 or 1.  *)
(***************************************************************************)
HParamNames ==
    <<"alpha_attn_init", "alpha_attn_scale", "alpha_ff_init", "alpha_ff_scale",
      "s_ff_hidden_init", "s_ff_hidden_scale", "s_ff_gate_init", "s_ff_gate_scale">>

\* the defaults of the signature
HParamDefaults ==
    [h \in {HParamNames[i] : i \in 1..8} |->
        IF h \in {"alpha_attn_init", "alpha_attn_scale", "alpha_ff_init", "alpha_ff_scale"}
        THEN Scalar(None) ELSE Scalar(One)]

\* a size argument that is None
NoDim == 0

Min(S) == CHOOSE m \in S : \A n \in S : m <= n

\* the exception __init__ raises, or "none"
nFeedforwards_raises(args) ==
    LET lens == {Len(cast_tuple(args.hparams[HParamNames[i]], args.depth)) : i \in 1..8}
        cast(h) == cast_tuple(args.hparams[h], args.depth)
        n == Min(lens)
    IN  IF \E i \in 1..8 : cast_tuple_raises(args.hparams[HParamNames[i]], args.depth)
        THEN "AssertionError"
        ELSE IF \E l \in 1..n :
                  \/ Scale_raises(DimInner(args.dim, args.ff_expand_factor),
                                  cast("s_ff_hidden_init")[l], cast("s_ff_hidden_scale")[l])
                  \/ Scale_raises(DimInner(args.dim, args.ff_expand_factor),
                                  cast("s_ff_gate_init")[l], cast("s_ff_gate_scale")[l])
                  \/ Scale_raises(args.dim,
                                  default(cast("alpha_ff_init")[l],
                                          default(args.alpha_init, FromRat(1, args.depth))),
                                  default(cast("alpha_ff_scale")[l], InvSqrt(args.dim)))
        THEN "ZeroDivisionError"
        ELSE "none"

\* the module __init__ builds when it does not raise
nFeedforwards_init(args, seed) ==
    LET dim == args.dim
        depth == args.depth
        cast(h) == cast_tuple(args.hparams[h], depth)
        alpha_init == default(args.alpha_init, FromRat(1, depth))
        \* zip stops at the shortest of the tuples
        n == Min({Len(cast(HParamNames[i])) : i \in 1..8})
        layer(l) ==
            Residual_init(
                nFeedforward_init(dim, args.ff_expand_factor, args.manual_norm_weights,
                                  cast("s_ff_hidden_init")[l], cast("s_ff_hidden_scale")[l],
                                  cast("s_ff_gate_init")[l], cast("s_ff_gate_scale")[l],
                                  seed, 3 * (l - 1)),
                dim,
                default(cast("alpha_ff_init")[l], alpha_init),
                default(cast("alpha_ff_scale")[l], InvSqrt(dim)))
        need_proj_in == args.dim_in # NoDim \/ args.input_preserve_magnitude
        dim_in == IF args.dim_in # NoDim THEN args.dim_in ELSE dim
        dim_constant_shift == IF args.input_preserve_magnitude THEN 1 ELSE 0
        need_proj_out == args.dim_out # NoDim
    IN  [dim |-> dim,
         depth |-> depth,
         layers |-> [l \in 1..n |-> layer(l)],
         input_preserve_magnitude |-> args.input_preserve_magnitude,
         need_proj_in |-> need_proj_in,
         proj_in |-> IF need_proj_in
                     THEN <<NormLinear_init(dim_in + dim_constant_shift, dim, FALSE, TRUE,
                                            Fill0(seed, 3 * n + 1, dim, dim_in + dim_constant_shift))>>
                     ELSE <<>>,
         proj_in_scale |-> IF need_proj_in THEN <<Scale_init(dim, One, One)>> ELSE <<>>,
         need_proj_out |-> need_proj_out,
         proj_out |-> IF need_proj_out
                      THEN <<NormLinear_init(dim, args.dim_out, TRUE, ~args.manual_norm_weights,
                                             Fill0(seed, 3 * n + 2, args.dim_out, dim))>>
                      ELSE <<>>,
         proj_out_scale |-> IF need_proj_out
                            THEN <<Scale_init(args.dim_out, One, InvSqrt(dim))>>
                            ELSE <<>>]

\* the NormLinears parent_module.modules() yields, in its order
NormLinears(parent) ==
    [i \in 1..(3 * Len(parent.layers)) |->
        LET ff == parent.layers[(i + 2) \div 3].fn IN
        IF i % 3 = 1 THEN ff.to_hidden ELSE IF i % 3 = 2 THEN ff.to_gate ELSE ff.to_out]
    \o parent.proj_in \o parent.proj_out

\* a norm_weights_ that reaches the layers only
norm_weights_layers_only(parent_module) ==
    [parent_module EXCEPT
        !.layers = [l \in 1..Len(parent_module.layers) |->
                       [parent_module.layers[l] EXCEPT
                           !.fn.to_hidden = NormLinear_norm_weights_(@),
                           !.fn.to_gate = NormLinear_norm_weights_(@),
                           !.fn.to_out = NormLinear_norm_weights_(@)]]]

\* norm_weights_(parent_module), which nFeedforwards.norm_weights_ calls on self
norm_weights_(parent_module) ==
    [parent_module EXCEPT
        !.layers = [l \in 1..Len(parent_module.layers) |->
                       [parent_module.layers[l] EXCEPT
                           !.fn.to_hidden = NormLinear_norm_weights_(@),
                           !.fn.to_gate = NormLinear_norm_weights_(@),
                           !.fn.to_out = NormLinear_norm_weights_(@)]],
        !.proj_in = [i \in 1..Len(parent_module.proj_in) |->
                        NormLinear_norm_weights_(parent_module.proj_in[i])],
        !.proj_out = [i \in 1..Len(parent_module.proj_out) |->
                        NormLinear_norm_weights_(parent_module.proj_out[i])]]

(***************************************************************************)
(* forward of the stack, on shapes.  The values of a forward pass go       *)
(* through silu and sums of irrationals and are not modelled; the shape of *)
(* every intermediate tensor is.  A shape is the sequence of the sizes of  *)
(* the axes; ShapeError stands for the RuntimeError of a size mismatch.    *)
(***************************************************************************)
ShapeError == <<-1>>

Max2(a, b) == IF a >= b THEN a ELSE b

\* the shape of an elementwise operation on tensors of shapes a and b (broadcasting)
Broadcast(a, b) ==
    IF a = ShapeError \/ b = ShapeError THEN ShapeError
    ELSE LET n == Max2(Len(a), Len(b))
             A(i) == IF i > n - Len(a) THEN a[i - (n - Len(a))] ELSE 1
             B(i) == IF i > n - Len(b) THEN b[i - (n - Len(b))] ELSE 1
         IN  IF \A i \in 1..n : A(i) = B(i) \/ A(i) = 1 \/ B(i) = 1
             THEN [i \in 1..n |-> IF A(i) = 1 THEN B(i) ELSE A(i)]
             ELSE ShapeError

\* F.pad(x, (0, 1)): one more entry on the last axis
pad_last(x) ==
    IF x = ShapeError \/ Len(x) = 0 THEN ShapeError
    ELSE [x EXCEPT ![Len(x)] = @ + 1]

\* NormLinear.forward: self.linear(x) maps the last axis from dim to dim_out
NormLinear_forward(m, x) ==
    IF x = ShapeError \/ Len(x) = 0 THEN ShapeError
    ELSE IF x[Len(x)] # m.dim THEN ShapeError
    ELSE [x EXCEPT ![Len(x)] = m.dim_out]

\* the shape of Scale.forward()
Scale_shape(sc) == <<sc.dim>>

nFeedforward_forward(ff, x) ==
    LET hidden0 == NormLinear_forward(ff.to_hidden, x)
        gate0 == NormLinear_forward(ff.to_gate, x)
        hidden1 == Broadcast(hidden0, Scale_shape(ff.hidden_scale))
        gate1 == Broadcast(gate0, Scale_shape(ff.gate_scale))
        hidden2 == Broadcast(gate1, hidden1)
    IN  NormLinear_forward(ff.to_out, hidden2)

\* Residual.forward around an nFeedforward, whose output is no tuple
Residual_forward_shape(r, x) ==
    LET out == nFeedforward_forward(r.fn, x)
    IN  Broadcast(Broadcast(x, out), Scale_shape(r.branch_scale))

RECURSIVE ApplyLayers(_, _, _)
\* for ff in self.layers: x = ff(x), from layer l on
ApplyLayers(layers, l, x) ==
    IF l > Len(layers) THEN x
    ELSE ApplyLayers(layers, l + 1, Residual_forward_shape(layers[l], x))

\* forward that returns before the output projection
nFeedforwards_forward_no_proj_out(m, x) ==
    LET x1 == IF m.input_preserve_magnitude THEN pad_last(x) ELSE x
        x2 == IF m.need_proj_in
              THEN Broadcast(NormLinear_forward(m.proj_in[1], x1), Scale_shape(m.proj_in_scale[1]))
              ELSE x1
    IN  ApplyLayers(m.layers, 1, x2)

\* nFeedforwards.forward
nFeedforwards_forward(m, x) ==
    LET x1 == IF m.input_preserve_magnitude THEN pad_last(x) ELSE x
        x2 == IF m.need_proj_in
              THEN Broadcast(NormLinear_forward(m.proj_in[1], x1), Scale_shape(m.proj_in_scale[1]))
              ELSE x1
        x3 == ApplyLayers(m.layers, 1, x2)
    IN  IF m.need_proj_out
        THEN Broadcast(NormLinear_forward(m.proj_out[1], x3), Scale_shape(m.proj_out_scale[1]))
        ELSE x3

VARIABLES
    nl,         \* the NormLinear under test
    nl_last,    \* the last operation on it: "init", "step", "norm", "forward"
    nl_norms,   \* number of norm_weights_ calls in succession, counted up to 2
    nl_used,    \* the weight the forward multiplied the input with, when forward is the last operation
    sc_args,    \* the arguments [dim, init, scale] of the Scale under test
    sc_pc,      \* "new" before the constructor ran, then "ok" or "ZeroDivisionError"
    sc,         \* the Scale under test
    sc_fresh,   \* no optimizer step has changed the learned vector yet
    sc_out,     \* the result of the last evaluation of the Scale
    res,        \* the Residual under test
    res_pc,     \* "idle", or "returned" when forward has returned
    res_x,      \* the input of the forward that returned
    res_fn_out, \* what the wrapped fn returned in it
    res_out,    \* what forward returned
    st_args,    \* the arguments of nFeedforwards(...)
    st_seed,    \* the seed of the random initial weights
    st_pc,      \* "new" before __init__ ran, "ok", "returned" from forward, or the exception of __init__
    st,         \* the nFeedforwards module
    st_last,    \* the last operation on it: "init", "step", "norm", "forward"
    st_norms,   \* number of norm_weights_ calls in succession, counted up to 2
    st_moved,   \* the first of these calls changed a stored weight
    st_x,       \* the shape of the input of the forward that returned
    st_y,       \* the shape of its result
    mlp_args,   \* the positional arguments of MLP(...) in the test
    mlp_x,      \* the shape of the input the test draws
    mlp_pc,     \* "test" when the test starts, "passed", or the exception that ends it
    mlp_y       \* the shape of mlp(x), when the test got to it

nlVars == <<nl, nl_last, nl_norms, nl_used>>

scVars == <<sc_args, sc_pc, sc, sc_fresh, sc_out>>

resVars == <<res, res_pc, res_x, res_fn_out, res_out>>

stVars == <<st_args, st_seed, st_pc, st, st_last, st_norms, st_moved, st_x, st_y>>

mlpVars == <<mlp_args, mlp_x, mlp_pc, mlp_y>>

vars == <<nlVars, scVars, resVars, stVars, mlpVars>>

NoTensor == <<>>

NoModule == <<>>

\* the components a specification does not exercise are absent
NLAbsent == nl = NoModule /\ nl_last = "absent" /\ nl_norms = 0 /\ nl_used = NoTensor

ScAbsent == sc_args = NoModule /\ sc_pc = "absent" /\ sc = NoModule /\ sc_fresh = FALSE /\ sc_out = NoTensor

ResAbsent == res = NoModule /\ res_pc = "absent" /\ res_x = NoTensor /\ res_fn_out = NoTensor /\ res_out = NoTensor

StAbsent ==
    /\ st_args = NoModule /\ st_seed = 0 /\ st_pc = "absent" /\ st = NoModule
    /\ st_last = "absent" /\ st_norms = 0 /\ st_moved = FALSE
    /\ st_x = NoTensor /\ st_y = NoTensor

MlpAbsent == mlp_args = NoTensor /\ mlp_x = NoTensor /\ mlp_pc = "absent" /\ mlp_y = NoTensor

(***************************************************************************)
(* A NormLinear, its caller's optimizer and its forward                    *)
(***************************************************************************)
NLInit ==
    /\ \E norm_dim_in \in BOOLEAN, parametrize \in BOOLEAN :
         \E w0 \in InitMatrices(NLDimOut, NLDimIn) :
            nl = NormLinear_init(NLDimIn, NLDimOut, norm_dim_in, parametrize, w0)
    /\ nl_last = "init"
    /\ nl_norms = 0
    /\ nl_used = NoTensor
    /\ ScAbsent /\ ResAbsent /\ StAbsent /\ MlpAbsent

\* an optimizer step of the caller overwrites the stored parameter
NLOptimizerStep ==
    /\ \E w \in IntMatrices(nl.dim_out, nl.dim) : nl' = [nl EXCEPT !.raw = w]
    /\ nl_last' = "step"
    /\ nl_norms' = 0
    /\ nl_used' = NoTensor
    /\ UNCHANGED <<scVars, resVars, stVars, mlpVars>>

NLNormWeights ==
    /\ nl' = NormLinear_norm_weights_(nl)
    /\ nl_last' = "norm"
    /\ nl_norms' = IF nl_norms < 2 THEN nl_norms + 1 ELSE 2
    /\ nl_used' = NoTensor
    /\ UNCHANGED <<scVars, resVars, stVars, mlpVars>>

\* forward(x) = self.linear(x): the input is multiplied with self.weight
NLForward ==
    /\ nl_used' = NormLinear_weight(nl)
    /\ nl_last' = "forward"
    /\ nl_norms' = 0
    /\ UNCHANGED nl
    /\ UNCHANGED <<scVars, resVars, stVars, mlpVars>>

NLNext == NLOptimizerStep \/ NLNormWeights \/ NLForward

SpecNL == NLInit /\ [][NLNext]_vars

(***************************************************************************)
(* A Scale: construction, evaluation, optimizer steps on the learned vector *)
(***************************************************************************)
Rationals(m) == {FromRat(p, q) : p \in -m..m, q \in 1..m}

ScalePool == Rationals(MaxS) \cup {InvSqrt(d) : d \in 1..MaxS}

ScInit ==
    /\ sc_args \in [dim : 1..MaxScaleDim, init : ScalePool, scale : ScalePool]
    /\ sc_pc = "new"
    /\ sc = NoModule
    /\ sc_fresh = FALSE
    /\ sc_out = NoTensor
    /\ NLAbsent /\ ResAbsent /\ StAbsent /\ MlpAbsent

ScConstruct ==
    /\ sc_pc = "new"
    /\ IF Scale_raises(sc_args.dim, sc_args.init, sc_args.scale)
       THEN /\ sc_pc' = "ZeroDivisionError"
            /\ UNCHANGED <<sc, sc_fresh>>
       ELSE /\ sc_pc' = "ok"
            /\ sc' = Scale_init(sc_args.dim, sc_args.init, sc_args.scale)
            /\ sc_fresh' = TRUE
    /\ UNCHANGED <<sc_args, sc_out>>
    /\ UNCHANGED <<nlVars, resVars, stVars, mlpVars>>

ScForward ==
    /\ sc_pc = "ok"
    /\ sc_out' = Scale_forward(sc)
    /\ UNCHANGED <<sc_args, sc_pc, sc, sc_fresh>>
    /\ UNCHANGED <<nlVars, resVars, stVars, mlpVars>>

\* an optimizer step of the caller overwrites the learned vector (here with one
\* value in every entry)
ScOptimizerStep ==
    /\ sc_pc = "ok"
    /\ \E r \in Rationals(MaxS) : sc' = [sc EXCEPT !.scale = [i \in 1..sc.dim |-> r]]
    /\ sc_fresh' = FALSE
    /\ sc_out' = NoTensor
    /\ UNCHANGED <<sc_args, sc_pc>>
    /\ UNCHANGED <<nlVars, resVars, stVars, mlpVars>>

ScNext == ScConstruct \/ ScForward \/ ScOptimizerStep

SpecScale == ScInit /\ [][ScNext]_vars

(***************************************************************************)
(* A Residual around an arbitrary fn: forward, optimizer steps on the step  *)
(***************************************************************************)
\* (1, 0, 0, ..), (0, 1, 0, ..), (3, 4, 0, ..) and (4, 3, 0, ..): directions of integer length
Directions(dim) ==
    {[i \in 1..dim |-> IF i = 1 THEN FromInt(p[1]) ELSE IF i = 2 THEN FromInt(p[2]) ELSE Zero] :
        p \in {<<1, 0>>, <<0, 1>>, <<3, 4>>, <<4, 3>>}}

Scaled(k, v) == [i \in 1..Len(v) |-> Mul(FromInt(k), v[i])]

\* what the wrapped fn returns: any multiple of a direction, so of any scale, zero included
FnOutputs(dim) == {Scaled(k, d) : k \in -MaxK..MaxK, d \in Directions(dim)}

\* the inputs: the multiples of the unit vectors of these directions
ResInputs(dim) == {Scaled(k, l2norm_vec(d)) : k \in -MaxK..MaxK, d \in Directions(dim)}

StepPool == {FromRat(p, 2) : p \in -1..MaxStepNum}

ResInit ==
    /\ \E a \in {<<FromRat(1, 2), None>>, <<One, One>>} :
          res = Residual_init("fn", ResDim, a[1], a[2])
    /\ res_pc = "idle"
    /\ res_x = NoTensor
    /\ res_fn_out = NoTensor
    /\ res_out = NoTensor
    /\ NLAbsent /\ ScAbsent /\ StAbsent /\ MlpAbsent

\* an optimizer step of the caller overwrites the learned vector of branch_scale:
\* the step branch_scale() becomes (t1, t2, t2, ..), rational
ResOptimizerStep ==
    /\ res_pc = "idle"
    /\ \E t1 \in StepPool, t2 \in StepPool :
          res' = [res EXCEPT !.branch_scale.scale =
                     [i \in 1..ResDim |->
                         Div(IF i = 1 THEN t1 ELSE t2, res.branch_scale.forward_scale)]]
    /\ UNCHANGED <<res_pc, res_x, res_fn_out, res_out>>
    /\ UNCHANGED <<nlVars, scVars, stVars, mlpVars>>

ResForward ==
    /\ res_pc = "idle"
    /\ \E x \in ResInputs(ResDim), out \in FnOutputs(ResDim), is_tuple \in BOOLEAN :
          LET fn_out == [is_tuple |-> is_tuple, out |-> out,
                         rest |-> IF is_tuple THEN <<"aux">> ELSE <<>>]
          IN  /\ res_x' = x
              /\ res_fn_out' = fn_out
              /\ res_out' = Residual_forward(res, x, fn_out)
    /\ res_pc' = "returned"
    /\ UNCHANGED res
    /\ UNCHANGED <<nlVars, scVars, stVars, mlpVars>>

\* the caller drops the result
ResReturn ==
    /\ res_pc = "returned"
    /\ res_pc' = "idle"
    /\ res_x' = NoTensor
    /\ res_fn_out' = NoTensor
    /\ res_out' = NoTensor
    /\ UNCHANGED res
    /\ UNCHANGED <<nlVars, scVars, stVars, mlpVars>>

ResNext == ResOptimizerStep \/ ResForward \/ ResReturn

SpecRes == ResInit /\ [][ResNext]_vars

(***************************************************************************)
(* The stack: nFeedforwards(...), optimizer steps, norm_weights_, forward  *)
(***************************************************************************)
HParamValues == {One, FromRat(1, 2)}

\* a hyperparameter given as one value or as a tuple of 1..MaxDepth+1 values
HParams ==
    {Scalar(v) : v \in HParamValues}
    \cup {Tuple(vs) : vs \in UNION {[1..n -> HParamValues] : n \in 1..(MaxDepth + 1)}}

ExpandFactors == {<<4, 1>>, <<3, 2>>}

DefaultArgs(dim, depth, manual_norm_weights) ==
    [dim |-> dim, depth |-> depth, dim_in |-> NoDim, dim_out |-> NoDim,
     ff_expand_factor |-> <<4, 1>>, input_preserve_magnitude |-> FALSE,
     manual_norm_weights |-> manual_norm_weights, alpha_init |-> None,
     hparams |-> HParamDefaults]

\* the calls of the constructor in which the projections vary
ProjArgs ==
    {[DefaultArgs(dim, depth, manual) EXCEPT
         !.dim_in = dim_in, !.dim_out = dim_out, !.ff_expand_factor = ef,
         !.input_preserve_magnitude = ipm] :
       dim \in 1..MaxDim, depth \in 1..MaxDepth, manual \in BOOLEAN,
       dim_in \in 0..MaxDim, dim_out \in 0..MaxDim, ef \in ExpandFactors, ipm \in BOOLEAN}

\* the calls of the constructor: the projections vary, or one hyperparameter does
StArgs ==
    ProjArgs \cup
    {[DefaultArgs(MaxDim, depth, FALSE) EXCEPT
         !.alpha_init = alpha_init, !.hparams[HParamNames[i]] = hp] :
       depth \in 1..MaxDepth,
       alpha_init \in {None, FromRat(1, 2)}, i \in 1..8, hp \in HParams}

\* the batch axes of an input: up to MaxRank axes of the sizes 1..MaxBatch in turn
BatchShapes ==
    {[i \in 1..n |-> 1 + ((s0 + i) % MaxBatch)] : n \in 0..MaxRank, s0 \in 0..(MaxBatch - 1)}

\* the shapes of the inputs of forward: batch axes and a feature axis
InputShapes == {b \o <<f>> : b \in BatchShapes, f \in 1..(MaxDim + 1)}

\* the constructor has not run yet
StStart ==
    /\ st_seed \in 0..MaxSeed
    /\ st_pc = "new"
    /\ st = NoModule
    /\ st_last = "new"
    /\ st_norms = 0
    /\ st_moved = FALSE
    /\ st_x = NoTensor
    /\ st_y = NoTensor
    /\ NLAbsent /\ ScAbsent /\ ResAbsent /\ MlpAbsent

StInit ==
    /\ st_args \in StArgs
    /\ StStart

\* the stack that is trained is built with the default hyperparameters and the
\* smaller inner dimension
TrainInit ==
    /\ st_args \in {a \in ProjArgs : a.ff_expand_factor = <<3, 2>>}
    /\ StStart

\* nFeedforwards(**st_args)
StConstruct ==
    /\ st_pc = "new"
    /\ IF nFeedforwards_raises(st_args) # "none"
       THEN /\ st_pc' = nFeedforwards_raises(st_args)
            /\ UNCHANGED <<st, st_last>>
       ELSE /\ st_pc' = "ok"
            /\ st' = nFeedforwards_init(st_args, st_seed)
            /\ st_last' = "init"
    /\ UNCHANGED <<st_args, st_seed, st_norms, st_moved, st_x, st_y>>
    /\ UNCHANGED <<nlVars, scVars, resVars, mlpVars>>

\* the k-th NormLinear of the stack after an optimizer step seeded by seed
Stepped(m, seed, k) == [m EXCEPT !.raw = Fill(seed, k, m.dim_out, m.dim)]

\* an optimizer step of the caller overwrites every stored weight
StOptimizerStep ==
    /\ st_pc = "ok"
    /\ \E seed \in 0..MaxSeed :
         st' = [st EXCEPT
                  !.layers = [l \in 1..Len(st.layers) |->
                                 [st.layers[l] EXCEPT
                                     !.fn.to_hidden = Stepped(@, seed, 3 * l - 2),
                                     !.fn.to_gate = Stepped(@, seed, 3 * l - 1),
                                     !.fn.to_out = Stepped(@, seed, 3 * l)]],
                  !.proj_in = [i \in 1..Len(st.proj_in) |->
                                 Stepped(st.proj_in[i], seed, 3 * Len(st.layers) + 1)],
                  !.proj_out = [i \in 1..Len(st.proj_out) |->
                                 Stepped(st.proj_out[i], seed, 3 * Len(st.layers) + 2)]]
    /\ st_last' = "step"
    /\ st_norms' = 0
    /\ st_moved' = FALSE
    /\ UNCHANGED <<st_args, st_seed, st_pc, st_x, st_y>>
    /\ UNCHANGED <<nlVars, scVars, resVars, mlpVars>>

\* nFeedforwards.norm_weights_()
StNormWeights ==
    /\ st_pc = "ok"
    /\ st' = norm_weights_(st)
    /\ st_last' = "norm"
    /\ st_norms' = IF st_norms < 2 THEN st_norms + 1 ELSE 2
    /\ st_moved' = IF st_norms = 0 THEN st' # st ELSE st_moved
    /\ UNCHANGED <<st_args, st_seed, st_pc, st_x, st_y>>
    /\ UNCHANGED <<nlVars, scVars, resVars, mlpVars>>

StForward ==
    /\ st_pc = "ok"
    /\ \E x \in InputShapes :
          /\ st_x' = x
          /\ st_y' = nFeedforwards_forward(st, x)
    /\ st_pc' = "returned"
    /\ UNCHANGED <<st_args, st_seed, st, st_last, st_norms, st_moved>>
    /\ UNCHANGED <<nlVars, scVars, resVars, mlpVars>>

\* the caller drops the result (or the RuntimeError)
StReturn ==
    /\ st_pc = "returned"
    /\ st_pc' = "ok"
    /\ st_x' = NoTensor
    /\ st_y' = NoTensor
    /\ UNCHANGED <<st_args, st_seed, st, st_last, st_norms, st_moved>>
    /\ UNCHANGED <<nlVars, scVars, resVars, mlpVars>>

\* the stack is built and called
Next == StConstruct \/ StForward \/ StReturn

Spec == StInit /\ [][Next]_vars

\* the stack is built and trained: optimizer steps and norm_weights_() calls
TrainNext == StConstruct \/ StOptimizerStep \/ StNormWeights

SpecTrain == TrainInit /\ [][TrainNext]_vars

(***************************************************************************)
(* MLP of x_mlps/x_mlps.py and test_mlp                                    *)
(***************************************************************************)
\* MLP(*args): __init__(self) takes no argument, so any positional argument is a
\* TypeError of the call; without arguments the body raises NotImplementedError
MLP_init(args) == IF Len(args) > 0 THEN "TypeError" ELSE "NotImplementedError"

MlpInit ==
    /\ mlp_args \in UNION {[1..n -> 1..MaxMlpDim] : n \in 0..MaxLayers}
    /\ mlp_x \in {b \o <<f>> : b \in BatchShapes, f \in 1..MaxMlpDim}
    /\ mlp_pc = "test"
    /\ mlp_y = NoTensor
    /\ NLAbsent /\ ScAbsent /\ ResAbsent /\ StAbsent

\* test_mlp: mlp = MLP(*mlp_args) raises, which ends the test before mlp(x) is called
test_mlp ==
    /\ mlp_pc = "test"
    /\ mlp_pc' = MLP_init(mlp_args)
    /\ UNCHANGED <<mlp_args, mlp_x, mlp_y>>
    /\ UNCHANGED <<nlVars, scVars, resVars, stVars>>

\* pytest reports the failed test and forgets its locals
test_report ==
    /\ mlp_pc \in {"TypeError", "NotImplementedError"}
    /\ mlp_pc' = "failed"
    /\ mlp_x' = NoTensor
    /\ UNCHANGED <<mlp_args, mlp_y>>
    /\ UNCHANGED <<nlVars, scVars, resVars, stVars>>

MlpNext == test_mlp \/ test_report

SpecMLP == MlpInit /\ [][MlpNext]_vars

(***************************************************************************)
(* C1                                                                      *)
(***************************************************************************)
\* the states in which C1 speaks about the weight: always in parametrize mode,
\* right after construction or a norm_weights_ call in manual mode
C1_Applies == nl.parametrize \/ nl_last \in {"init", "norm"}

C2_OutputUnitNormAlways ==
    res_pc = "returned" => HasUnitNorm(res_out.out)

\* the vector forward normalizes last: x.lerp(l2norm(fn(x)), branch_scale())
C2_Blended == lerp(res_x, l2norm_vec(res_fn_out.out), Scale_forward(res.branch_scale))

\* C2 as amended: the primary tensor returned has L2 norm 1 unless the blended
\* vector is the zero vector, and then the primary tensor returned is the zero vector.
C2_OutputUnitNormOrZero ==
    res_pc = "returned" =>
        IF IsZeroVector(C2_Blended) THEN IsZeroVector(res_out.out)
        ELSE HasUnitNorm(res_out.out)

\* forward returned a unit vector for an fn output of squared norm above 1 and a
\* non-unit input, with a step that is neither 0 nor 1
C2_Witness ==
    /\ res_pc = "returned"
    /\ HasUnitNorm(res_out.out)
    /\ SumSquares(res_fn_out.out) \notin {<<0, 1>>, <<1, 1>>}
    /\ SumSquares(res_x) \notin {<<0, 1>>, <<1, 1>>}
    /\ \A i \in 1..ResDim : Scale_forward(res.branch_scale)[i] \notin {Zero, One}
    /\ res_out.out # l2norm_vec(res_x)
    /\ res_out.out # l2norm_vec(res_fn_out.out)

(***************************************************************************)
(* C6                                                                      *)
(***************************************************************************)
\* C6: a freshly constructed Scale(dim, init, scale), evaluated before any optimizer
\* step, returns a vector of length dim whose every entry equals init; every
\* scale other than 0 is accepted and neither construction nor evaluation raises.
C6_FreshScaleReturnsInit ==
    /\ (sc_pc = "ok" /\ sc_fresh /\ sc_out # NoTensor) =>
          /\ Len(sc_out) = sc_args.dim
          /\ \A i \in 1..sc_args.dim : sc_out[i] = sc_args.init
    /\ (sc_pc # "new" /\ sc_args.scale # Zero) => sc_pc = "ok"

\* a fresh Scale with scale # 1 and init # scale has been evaluated
C6_Witness ==
    /\ sc_pc = "ok" /\ sc_fresh /\ sc_out # NoTensor
    /\ sc_args.dim > 1
    /\ sc_args.scale # One
    /\ sc_args.init \notin {sc_args.scale, Zero, One}
    /\ sc_out[1] = sc_args.init

(***************************************************************************)
(* C3                                                                      *)
(***************************************************************************)
\* the six per-layer hyperparameters C3 and C7 name
PerLayerNames == {HParamNames[i] : i \in 3..8}

\* C3: when a per-layer hyperparameter is a tuple whose length is not depth, the
\* constructor raises (the assertion of cast_tuple) and no stack is produced.
C3_WrongLengthRaises ==
    st_pc # "new" =>
        \A h \in PerLayerNames :
            (st_args.hparams[h].is_tuple /\ Len(st_args.hparams[h].v) # st_args.depth) =>
                st_pc = "AssertionError" /\ st = NoModule

\* the constructor raised for depth 2 and a tuple of length 3, and for no other reason
C3_Witness ==
    /\ st_pc = "AssertionError"
    /\ st = NoModule
    /\ st_args.depth = 2
    /\ st_args.hparams["s_ff_gate_scale"].is_tuple
    /\ Len(st_args.hparams["s_ff_gate_scale"].v) = 3

(***************************************************************************)
(* C4                                                                      *)
(***************************************************************************)
\* the batch axes and the feature axis of a shape
Batch(x) == SubSeq(x, 1, Len(x) - 1)

Feature(x) == x[Len(x)]

\* forward returned for an input whose feature axis is dim_in, or dim without dim_in
C4_Applies ==
    /\ st_pc = "returned"
    /\ Feature(st_x) = IF st_args.dim_in # NoDim THEN st_args.dim_in ELSE st_args.dim

\* C4 as stated: the batch axes are preserved and the feature axis of the output is
\* dim_out when dim_out is given; without dim_out the output shape is the input shape.
C4_ShapeAsStated ==
    C4_Applies =>
        st_y = IF st_args.dim_out # NoDim THEN Batch(st_x) \o <<st_args.dim_out>> ELSE st_x

\* C4 as amended: the batch axes are preserved and the feature axis of the output is
\* dim_out when dim_out is given, and dim otherwise.
C4_ShapeAmended ==
    C4_Applies =>
        st_y = Batch(st_x) \o <<IF st_args.dim_out # NoDim THEN st_args.dim_out ELSE st_args.dim>>

\* forward returned for two batch axes, with the magnitude-preserving input
\* projection from dim_in # dim and the output projection to dim_out # dim
C4_Witness ==
    /\ C4_Applies
    /\ Len(st_x) = 3
    /\ st_args.input_preserve_magnitude
    /\ st_args.dim_in \notin {NoDim, st_args.dim}
    /\ st_args.dim_out \notin {NoDim, st_args.dim}
    /\ st_args.depth > 1
    /\ st_y = Batch(st_x) \o <<st_args.dim_out>>

(***************************************************************************)
(* C5                                                                      *)
(***************************************************************************)
\* a step that is a norm_weights_() call of the stack
IsNormWeightsCall == st_pc = "ok" /\ st_pc' = "ok" /\ st_last' = "norm"

C7_AsTuple(args, h) ==
    [args EXCEPT !.hparams[h] = Tuple([l \in 1..args.depth |-> args.hparams[h].v[1]])]

\* C7: right after a construction in which the per-layer hyperparameter h is one
\* value v, the layers are those the construction with h = (v,) * depth builds;
\* both constructions succeed and there are depth layers.
C7_BroadcastEquivalence ==
    /\ (st_pc # "new" /\ \A i \in 1..8 : ~st_args.hparams[HParamNames[i]].is_tuple) =>
          st_pc \in {"ok", "returned"}
    /\ (st_pc = "ok" /\ st_last = "init") =>
          \A h \in PerLayerNames :
              ~st_args.hparams[h].is_tuple =>
                  /\ nFeedforwards_raises(C7_AsTuple(st_args, h)) = "none"
                  /\ nFeedforwards_init(C7_AsTuple(st_args, h), st_seed).layers = st.layers
                  /\ Len(st.layers) = st_args.depth

\* a stack of depth 2 was built with alpha_ff_init = 1/2 given as one value
C7_Witness ==
    /\ st_pc = "ok"
    /\ st_last = "init"
    /\ st_args.depth = 2
    /\ st_args.hparams["alpha_ff_init"] = Scalar(FromRat(1, 2))
    /\ Len(st.layers) = 2
    /\ \A l \in 1..2 : Scale_forward(st.layers[l].branch_scale)[1] = FromRat(1, 2)

(***************************************************************************)
(* C9                                                                      *)
(***************************************************************************)
\* C9: every NormLinear of the stack is in manual mode when manual_norm_weights
\* is set and in parametrize mode when it is not.
C9_ModeIsStackWide ==
    st_pc \in {"ok", "returned"} =>
        LET ms == NormLinears(st)
        IN  \A i \in 1..Len(ms) : ms[i].parametrize = ~st_args.manual_norm_weights

C8_TestPasses ==
    (mlp_pc # "test" /\ Len(mlp_args) >= 2 /\ mlp_x # NoTensor /\ Feature(mlp_x) = mlp_args[1]) =>
        /\ mlp_pc = "passed"
        /\ mlp_y = Batch(mlp_x) \o <<mlp_args[Len(mlp_args)]>>

====
